---- MODULE Spec2Model ----
(***************************************************************************)
(* update_version.py: read plugin.cfg, ask git for the descriptive tag,    *)
(* normalize it (hyphens after the first become plus signs), replace every *)
(* line that starts with version= and write plugin.cfg back.               *)
(*                                                                         *)
(* Text is modelled as sequences of one-character strings.  plugin.cfg is  *)
(* the sequence of characters on disk; Python's text mode translates line  *)
(* ends on the way in (universal newlines) and on the way out (os.linesep).*)
(***************************************************************************)
EXTENDS Integers, Sequences, FiniteSets, TLC

VARIABLES
    file,          \* plugin.cfg: the characters on disk
    exists,        \* whether plugin.cfg exists
    linesep,       \* os.linesep of the platform the script runs on
    original,      \* history: plugin.cfg as it was before the first invocation
    runs,          \* number of invocations started so far
    events,        \* history: the steps of all invocations, in the order they happened
    pc,            \* pc[p]: where invocation slot p stands in the script
    pid,           \* pid[p]: the number of the invocation running in slot p
    lines,         \* the script's variable lines
    git_describe,  \* the script's variable git_describe
    new_lines,     \* the script's variable new_lines
    out,           \* what the invocation has printed so far, one entry per print
    err            \* the exception that ended the invocation, "" when none

vars == <<file, exists, linesep, original, runs, events, pc, pid, lines,
          git_describe, new_lines, out, err>>

Procs == {1, 2}

\* ------------------------------------------------------------------ bounds

\* Longest descriptive string the normalization is tried on.
MaxLen == 5
\* Most lines of the plugin.cfg the script starts from.
MaxLines == 3
\* Most invocations run one after the other.
MaxRuns == 2
\* Most lines of the plugin.cfg two concurrent invocations start from.
MaxConcLines == 1

\* ------------------------------------------------------------ str methods

\* s.count(c) for a one-character c
Count(s, c) == Cardinality({i \in 1..Len(s) : s[i] = c})

\* s.rfind(c) in the place of s.find(c)
FindLast(s, c) ==
    IF \E i \in 1..Len(s) : s[i] = c
    THEN (CHOOSE i \in 1..Len(s) : s[i] = c /\ \A j \in (i + 1)..Len(s) : s[j] # c) - 1
    ELSE -1

\* s.find(c) for a one-character c: the 0-based index of the first c, -1 when none
Find(s, c) ==
    IF \E i \in 1..Len(s) : s[i] = c
    THEN (CHOOSE i \in 1..Len(s) : s[i] = c /\ \A j \in 1..(i - 1) : s[j] # c) - 1
    ELSE -1

\* s[lo:hi] for 0 <= lo and 0 <= hi
Slice(s, lo, hi) == SubSeq(s, lo + 1, IF hi > Len(s) THEN Len(s) ELSE hi)

\* s.replace(a, b, 1) in the place of s.replace(a, b)
ReplaceFirstOnly(s, a, b) ==
    [i \in 1..Len(s) |-> IF s[i] = a /\ Find(s, a) = i - 1 THEN b ELSE s[i]]

\* s.replace(a, b) for one-character a and b
Replace(s, a, b) == [i \in 1..Len(s) |-> IF s[i] = a THEN b ELSE s[i]]

\* prefix in s, in the place of s.startswith(prefix)
StartsWithAnywhere(s, prefix) ==
    \E k \in 0..Len(s) :
        /\ k + Len(prefix) <= Len(s)
        /\ \A i \in 1..Len(prefix) : s[k + i] = prefix[i]

\* s.startswith(prefix)
StartsWith(s, prefix) ==
    /\ Len(prefix) <= Len(s)
    /\ \A i \in 1..Len(prefix) : s[i] = prefix[i]

Whitespace == {" ", "\t", "\n", "\r", "\f"}

RECURSIVE LStrip(_)
LStrip(s) == IF s # <<>> /\ Head(s) \in Whitespace THEN LStrip(Tail(s)) ELSE s

RECURSIVE RStrip(_)
RStrip(s) ==
    IF s # <<>> /\ s[Len(s)] \in Whitespace THEN RStrip(SubSeq(s, 1, Len(s) - 1)) ELSE s

\* s.strip()
Strip(s) == RStrip(LStrip(s))

\* ---------------------------------------------------------- normalization

\* The block without its first-hyphen split: every hyphen replaced.
NormalizeEveryHyphen(s) == Replace(s, "-", "+")

\* The block without the + "-" + of line 15.
NormalizeDropsFirstHyphen(s) ==
    IF Count(s, "-") >= 2
    THEN Slice(s, 0, Find(s, "-")) \o Replace(Slice(s, Find(s, "-") + 1, Len(s)), "-", "+")
    ELSE s

\* lines 12-15: the value of git_describe after the normalization block
Normalize(s) ==
    IF Count(s, "-") >= 2
    THEN LET first_index == Find(s, "-")
         IN  IF first_index # -1
             THEN Slice(s, 0, first_index) \o <<"-">>
                      \o Replace(Slice(s, first_index + 1, Len(s)), "-", "+")
             ELSE s
    ELSE s

\* ------------------------------------------------------------- text files

RECURSIVE TranslateNewlines(_)
\* open(..., "r") with newline=None: "\r\n" and a lone "\r" are read as "\n"
TranslateNewlines(s) ==
    IF s = <<>> THEN <<>>
    ELSE IF Head(s) = "\r"
         THEN <<"\n">> \o TranslateNewlines(
                  IF Len(s) >= 2 /\ s[2] = "\n" THEN SubSeq(s, 3, Len(s)) ELSE Tail(s))
         ELSE <<Head(s)>> \o TranslateNewlines(Tail(s))

RECURSIVE SplitLines(_)
\* readlines() on decoded text: each line keeps its "\n"; the last may have none
SplitLines(text) ==
    IF text = <<>> THEN <<>>
    ELSE LET k == IF Find(text, "\n") = -1 THEN Len(text) ELSE Find(text, "\n") + 1
         IN  <<SubSeq(text, 1, k)>> \o SplitLines(SubSeq(text, k + 1, Len(text)))

\* lines 5-6: what readlines() returns for the characters on disk
ReadLines(bytes) == SplitLines(TranslateNewlines(bytes))

RECURSIVE Flatten(_)
\* writelines(): the lines one after the other, nothing added between them
Flatten(ls) == IF ls = <<>> THEN <<>> ELSE Head(ls) \o Flatten(Tail(ls))

RECURSIVE EncodeNewlines(_, _)
\* open(..., "w") with newline=None: every "\n" written becomes os.linesep
EncodeNewlines(text, sep) ==
    IF text = <<>> THEN <<>>
    ELSE (IF Head(text) = "\n" THEN sep ELSE <<Head(text)>>)
             \o EncodeNewlines(Tail(text), sep)

\* line 25: the characters writelines(ls) hands to the file
WriteLines(ls, sep) == EncodeNewlines(Flatten(ls), sep)

\* A handle opened with "a": the data lands behind what the file holds.
WriteAtEnd(f, data) == f \o data

\* line 25, at close: one write of data at offset 0 of the file as it is then;
\* nothing is written when there is no data
WriteAtStart(f, data) ==
    [i \in 1..(IF Len(data) > Len(f) THEN Len(data) ELSE Len(f)) |->
        IF i <= Len(data) THEN data[i] ELSE f[i]]

\* ---------------------------------------------------------------- rewrite

\* the literal "version=" of line 20
VersionPrefix == <<"v", "e", "r", "s", "i", "o", "n", "=">>

\* Line 21 without its "\n".
VersionLineNoNewline(v) == VersionPrefix \o <<"\"">> \o v \o <<"\"">>

\* line 21: 'version="' + git_describe + '"\n'
VersionLine(v) == VersionPrefix \o <<"\"">> \o v \o <<"\"", "\n">>

\* "version=" in line, in the place of line.startswith("version=")
IsVersionLineLoose(line) == StartsWithAnywhere(line, VersionPrefix)

\* line 20: line.startswith("version=")
IsVersionLine(line) == StartsWith(line, VersionPrefix)

RECURSIVE RewriteLoop(_, _, _)
\* lines 19-22: the loop, from the lines still to visit and new_lines so far
RewriteLoop(todo, acc, v) ==
    IF todo = <<>> THEN acc
    ELSE RewriteLoop(Tail(todo),
                     Append(acc, IF IsVersionLine(Head(todo))
                                 THEN VersionLine(v) ELSE Head(todo)),
                     v)

\* The loop replacing only the first line that matches.
RewriteFirstMatchOnly(ls, v) ==
    [i \in 1..Len(ls) |->
        IF IsVersionLine(ls[i]) /\ \A j \in 1..(i - 1) : ~IsVersionLine(ls[j])
        THEN VersionLine(v) ELSE ls[i]]

RECURSIVE RewriteAppendsInsideIf(_, _)
\* The loop with line 22 indented under the if.
RewriteAppendsInsideIf(ls, v) ==
    IF ls = <<>> THEN <<>>
    ELSE (IF IsVersionLine(Head(ls)) THEN <<VersionLine(v)>> ELSE <<>>)
             \o RewriteAppendsInsideIf(Tail(ls), v)

\* lines 18-22: new_lines for the lines read and the normalized version
Rewrite(ls, v) == RewriteLoop(ls, <<>>, v)

\* ----------------------------------------------------------------- inputs

LF == <<"\n">>
CRLF == <<"\r", "\n">>

\* The line contents plugin.cfg is built from: a version assignment, the same
\* text behind a leading blank, and an unrelated key.
Bodies ==
    { <<"v", "e", "r", "s", "i", "o", "n", "=", "1">>,
      <<" ", "v", "e", "r", "s", "i", "o", "n", "=", "1">>,
      <<"n", "=", "p">> }

RECURSIVE JoinLines(_, _, _)
\* the bodies, each followed by the line end nl, the last one only when closed
JoinLines(bs, nl, closed) ==
    IF bs = <<>> THEN <<>>
    ELSE Head(bs) \o (IF Len(bs) > 1 \/ closed THEN nl ELSE <<>>)
             \o JoinLines(Tail(bs), nl, closed)

\* The files of at most n lines, with "\n" or "\r\n" line ends, with and
\* without a line end after the last line.
Documents(n) ==
    { JoinLines(bs, nl, closed) :
        bs \in UNION {[1..k -> Bodies] : k \in 0..n},
        nl \in {LF, CRLF},
        closed \in BOOLEAN }

\* What `git describe --tags --abbrev=6` prints (bytes, with the final newline):
\* at a tag; at a tag that holds a hyphen; n commits after a tag; after a tag
\* that holds a hyphen; after a tag that holds a plus sign.
DescribeOutputs ==
    { <<"1", "\n">>,
      <<"1", "-", "b", "\n">>,
      <<"1", "-", "2", "-", "g", "\n">>,
      <<"1", "-", "b", "-", "2", "-", "g", "\n">>,
      <<"1", "+", "b", "-", "2", "-", "g", "\n">> }

\* The descriptive strings of 1 to n characters over a tag character, the
\* hyphen and the plus sign.
Strings(n) == UNION {[1..k -> {"v", "-", "+"}] : k \in 1..n}

\* ------------------------------------------------------------------ state

Fresh == [p \in Procs |-> <<>>]

Init ==
    /\ exists \in BOOLEAN
    /\ file \in (IF exists THEN Documents(MaxLines) ELSE {<<>>})
    /\ linesep \in {LF, CRLF}
    /\ original = file
    /\ runs = 0
    /\ events = <<>>
    /\ pc = [p \in Procs |-> "idle"]
    /\ pid = [p \in Procs |-> 0]
    /\ lines = Fresh
    /\ git_describe = Fresh
    /\ new_lines = Fresh
    /\ out = Fresh
    /\ err = [p \in Procs |-> ""]

Finished(p) == pc[p] \in {"done", "failed"}

Event(p, op) == [pid |-> pid[p], op |-> op]

\* A new process: nothing read, nothing printed, at the top of the script.
Launch(p) ==
    /\ runs' = runs + 1
    /\ pid' = [pid EXCEPT ![p] = runs + 1]
    /\ pc' = [pc EXCEPT ![p] = "read"]
    /\ lines' = [lines EXCEPT ![p] = <<>>]
    /\ git_describe' = [git_describe EXCEPT ![p] = <<>>]
    /\ new_lines' = [new_lines EXCEPT ![p] = <<>>]
    /\ out' = [out EXCEPT ![p] = <<>>]
    /\ err' = [err EXCEPT ![p] = ""]
    /\ UNCHANGED <<file, exists, linesep, original, events>>

\* The operator runs the script, again once the run before it has ended.
Invoke(p) ==
    /\ pc[p] = "idle" \/ Finished(p)
    /\ runs < MaxRuns
    /\ Launch(p)

\* The script is started once in slot p, whatever the other slot is doing.
InvokeConcurrently(p) ==
    /\ pc[p] = "idle"
    /\ Launch(p)

\* lines 5-6: open("plugin.cfg", "r") and readlines()
ReadConfig(p) ==
    /\ pc[p] = "read"
    /\ exists
    /\ lines' = [lines EXCEPT ![p] = ReadLines(file)]
    /\ events' = Append(events, Event(p, "read"))
    /\ pc' = [pc EXCEPT ![p] = "describe"]
    /\ UNCHANGED <<file, exists, linesep, original, runs, pid, git_describe,
                   new_lines, out, err>>

\* line 5: open() raises when there is no plugin.cfg; the script ends there
ReadConfigFails(p) ==
    /\ pc[p] = "read"
    /\ ~exists
    /\ err' = [err EXCEPT ![p] = "FileNotFoundError"]
    /\ pc' = [pc EXCEPT ![p] = "failed"]
    /\ UNCHANGED <<file, exists, linesep, original, runs, events, pid, lines,
                   git_describe, new_lines, out>>

\* Line 8 inside a try that swallows the exception and goes on.
DescribeFailureIgnored(p) ==
    /\ pc[p] = "describe"
    /\ err' = [err EXCEPT ![p] = "CalledProcessError"]
    /\ pc' = [pc EXCEPT ![p] = "normalize"]
    /\ UNCHANGED <<file, exists, linesep, original, runs, events, pid, lines,
                   git_describe, new_lines, out>>

\* lines 8-9: git describe succeeds; its output is decoded, stripped and printed
Describe(p) ==
    /\ pc[p] = "describe"
    /\ \E raw \in DescribeOutputs :
           /\ git_describe' = [git_describe EXCEPT ![p] = Strip(raw)]
           /\ out' = [out EXCEPT ![p] = Append(out[p], Strip(raw))]
    /\ events' = Append(events, Event(p, "describe"))
    /\ pc' = [pc EXCEPT ![p] = "normalize"]
    /\ UNCHANGED <<file, exists, linesep, original, runs, pid, lines, new_lines, err>>

\* line 8: git describe exits non-zero (no repository, no tag); check_output
\* raises and the script ends there
DescribeFails(p) ==
    /\ pc[p] = "describe"
    /\ err' = [err EXCEPT ![p] = "CalledProcessError"]
    /\ pc' = [pc EXCEPT ![p] = "failed"]
    /\ UNCHANGED <<file, exists, linesep, original, runs, events, pid, lines,
                   git_describe, new_lines, out>>

\* lines 12-16: the normalization block; line 16 prints only inside both ifs
NormalizeStep(p) ==
    /\ pc[p] = "normalize"
    /\ git_describe' = [git_describe EXCEPT ![p] = Normalize(git_describe[p])]
    /\ out' = [out EXCEPT ![p] =
                  IF Count(git_describe[p], "-") >= 2 /\ Find(git_describe[p], "-") # -1
                  THEN Append(out[p], Normalize(git_describe[p]))
                  ELSE out[p]]
    /\ pc' = [pc EXCEPT ![p] = "rewrite"]
    /\ UNCHANGED <<file, exists, linesep, original, runs, events, pid, lines,
                   new_lines, err>>

\* lines 18-22: the rewrite loop
RewriteStep(p) ==
    /\ pc[p] = "rewrite"
    /\ new_lines' = [new_lines EXCEPT ![p] = Rewrite(lines[p], git_describe[p])]
    /\ pc' = [pc EXCEPT ![p] = "open_w"]
    /\ UNCHANGED <<file, exists, linesep, original, runs, events, pid, lines,
                   git_describe, out, err>>

\* line 24: open("plugin.cfg", "w") truncates the file; the handle starts at 0
OpenForWrite(p) ==
    /\ pc[p] = "open_w"
    /\ file' = <<>>
    /\ exists' = TRUE
    /\ events' = Append(events, Event(p, "trunc"))
    /\ pc' = [pc EXCEPT ![p] = "write"]
    /\ UNCHANGED <<linesep, original, runs, pid, lines, git_describe, new_lines,
                   out, err>>

\* line 25 and the end of the with block: writelines() fills the buffer, close
\* hands it to the file in one write at the handle's offset, 0
WriteBack(p) ==
    /\ pc[p] = "write"
    /\ file' = WriteAtStart(file, WriteLines(new_lines[p], linesep))
    /\ events' = Append(events, Event(p, "write"))
    /\ pc' = [pc EXCEPT ![p] = "done"]
    /\ UNCHANGED <<exists, linesep, original, runs, pid, lines, git_describe,
                   new_lines, out, err>>

\* One step of the script in slot p.
Step(p) ==
    \/ ReadConfig(p)
    \/ ReadConfigFails(p)
    \/ Describe(p)
    \/ DescribeFails(p)
    \/ NormalizeStep(p)
    \/ RewriteStep(p)
    \/ OpenForWrite(p)
    \/ WriteBack(p)

\* ---------------------------------------------------------- specifications

\* One operator, one invocation after the other.
Next == Invoke(1) \/ Step(1)

Spec == Init /\ [][Next]_vars

\* Two invocations started independently against the same plugin.cfg.
InitConc ==
    /\ Init
    /\ file \in Documents(MaxConcLines)

NextConc == \E p \in Procs : InvokeConcurrently(p) \/ Step(p)

SpecConc == InitConc /\ [][NextConc]_vars

\* The script from its normalization block on, for every descriptive string
\* up to MaxLen: it has read a plugin.cfg of one version line and printed the
\* string.
ConfigOfNorm == JoinLines(<< <<"v", "e", "r", "s", "i", "o", "n", "=", "1">> >>, LF, TRUE)

InitNorm ==
    /\ exists = TRUE
    /\ file = ConfigOfNorm
    /\ linesep = LF
    /\ original = file
    /\ runs = 1
    /\ pid = [p \in Procs |-> IF p = 1 THEN 1 ELSE 0]
    /\ events = <<[pid |-> 1, op |-> "read"], [pid |-> 1, op |-> "describe"]>>
    /\ pc = [p \in Procs |-> IF p = 1 THEN "normalize" ELSE "idle"]
    /\ lines = [p \in Procs |-> IF p = 1 THEN ReadLines(file) ELSE <<>>]
    /\ new_lines = Fresh
    /\ err = [p \in Procs |-> ""]
    /\ \E s \in Strings(MaxLen) :
           /\ git_describe = [p \in Procs |-> IF p = 1 THEN s ELSE <<>>]
           /\ out = [p \in Procs |-> IF p = 1 THEN <<s>> ELSE <<>>]

NextNorm == NormalizeStep(1) \/ RewriteStep(1) \/ OpenForWrite(1) \/ WriteBack(1)

SpecNorm == InitNorm /\ [][NextNorm]_vars

\* ----------------------------------------------------------------- claims

\* The invocation in slot p has left the normalization block behind.
Normalized(p) == pc[p] \in {"rewrite", "open_w", "write", "done"}

\* The invocation in slot p has left the rewrite loop behind.
Rewritten(p) == pc[p] \in {"open_w", "write", "done"}

\* The descriptive string as git gave it: the first thing the script printed.
RawDescribe(p) == out[p][1]

Hyphens(s) == {i \in 1..Len(s) : s[i] = "-"}

Pluses(s) == {i \in 1..Len(s) : s[i] = "+"}

FirstHyphen(s) == CHOOSE i \in Hyphens(s) : \A j \in Hyphens(s) : i <= j

\* The part of s behind position k.
Behind(s, k) == SubSeq(s, k + 1, Len(s))

\* The worked examples of the normalization, character by character.
ExampleTag ==
    <<"v", "1", ".", "2", ".", "3", "-", "5", "-", "g", "a", "b", "c", "d", "e", "f">>
ExampleTagNormalized ==
    <<"v", "1", ".", "2", ".", "3", "-", "5", "+", "g", "a", "b", "c", "d", "e", "f">>
ExampleRc ==
    <<"v", "1", ".", "2", ".", "3", "-", "r", "c", "1", "-", "5", "-", "g", "a", "b",
      "c", "d", "e", "f">>
ExampleRcNormalized ==
    <<"v", "1", ".", "2", ".", "3", "-", "r", "c", "1", "+", "5", "+", "g", "a", "b",
      "c", "d", "e", "f">>

C2_FewerThanTwoHyphensUnchanged ==
    \A p \in Procs :
        Normalized(p) /\ Cardinality(Hyphens(RawDescribe(p))) < 2 =>
            /\ git_describe[p] = RawDescribe(p)
            /\ out[p] = <<RawDescribe(p)>>
            /\ pc[p] = "done" =>
                   file = VersionPrefix \o <<"\"">> \o RawDescribe(p) \o <<"\"", "\n">>

C2_Witness ==
    /\ pc[1] = "done"
    /\ Cardinality(Hyphens(RawDescribe(1))) = 1
    /\ Cardinality(Pluses(RawDescribe(1))) = 1

BeginsWithVersionEq(line) ==
    /\ Len(line) >= 8
    /\ line[1] = "v" /\ line[2] = "e" /\ line[3] = "r" /\ line[4] = "s"
    /\ line[5] = "i" /\ line[6] = "o" /\ line[7] = "n" /\ line[8] = "="

\* version="<v>" and a newline
QuotedVersionLine(v) ==
    <<"v", "e", "r", "s", "i", "o", "n", "=", "\"">> \o v \o <<"\"", "\n">>

MatchingIndices(ls) == {i \in 1..Len(ls) : BeginsWithVersionEq(ls[i])}

\* The document ls with each line that begins with version= replaced.
Stamped(ls, v) ==
    [i \in 1..Len(ls) |-> IF BeginsWithVersionEq(ls[i]) THEN QuotedVersionLine(v) ELSE ls[i]]

\* C4: every line that begins with version= is replaced by version="<normalized
\* version>", all of them when there are several; a line that begins with
\* anything else, a blank before version= included, is not replaced; the file
\* a finished run leaves holds these lines.
C4_EveryVersionLineReplaced ==
    \A p \in Procs :
        Rewritten(p) =>
            /\ \A i \in 1..Len(lines[p]) :
                   /\ i <= Len(new_lines[p])
                   /\ BeginsWithVersionEq(lines[p][i]) =>
                          new_lines[p][i] = QuotedVersionLine(git_describe[p])
                   /\ ~BeginsWithVersionEq(lines[p][i]) =>
                          new_lines[p][i] = lines[p][i]
            /\ pc[p] = "done" =>
                   LET left == ReadLines(file)
                   IN  \A i \in MatchingIndices(lines[p]) :
                           left[i] = QuotedVersionLine(git_describe[p])

C4_Witness ==
    /\ pc[1] = "done"
    /\ MatchingIndices(lines[1]) = {1, 3}
    /\ lines[1][2][1] = " "
    /\ BeginsWithVersionEq(Tail(lines[1][2]))
    /\ new_lines[1][2] = lines[1][2]
    /\ new_lines[1][1] = new_lines[1][3]
    /\ new_lines[1][1] # lines[1][1]

\* C5: the lines written back are as many as the lines read, and every line
\* that does not begin with version= stands at its index unchanged, line end
\* included.
C5_LineCountAndOtherLinesKept ==
    \A p \in Procs :
        Rewritten(p) =>
            /\ Len(new_lines[p]) = Len(lines[p])
            /\ \A i \in 1..Len(lines[p]) :
                   ~BeginsWithVersionEq(lines[p][i]) => new_lines[p][i] = lines[p][i]
            /\ pc[p] = "done" => Len(ReadLines(file)) = Len(lines[p])

C5_Witness ==
    /\ pc[1] = "done"
    /\ Len(lines[1]) = 3
    /\ MatchingIndices(lines[1]) = {2}
    /\ new_lines[1][2] # lines[1][2]
    /\ lines[1][3][Len(lines[1][3])] # "\n"

\* The steps of invocation n, in order.
StepsOf(n) == SelectSeq(events, LAMBDA e : e.pid = n)

OpsOf(n) == [i \in 1..Len(StepsOf(n)) |-> StepsOf(n)[i].op]

IsPrefixOf(s, t) == Len(s) <= Len(t) /\ SubSeq(t, 1, Len(s)) = s

\* C6: plugin.cfg is opened for writing only by an invocation whose read and
\* whose git describe both succeeded, and written at most once by it; a step
\* of an invocation that is not at its open-for-write or its write leaves the
\* file as it is, so a run that git describe fails leaves it as it found it.
C6_NoWriteUnlessReadAndDescribeSucceeded ==
    /\ [](\A n \in 1..runs :
              IsPrefixOf(OpsOf(n), <<"read", "describe", "trunc", "write">>))
    /\ [](\A p \in Procs : pc[p] = "failed" => Len(OpsOf(pid[p])) <= 1)
    /\ [][ (\E p \in Procs : pc'[p] = "failed" /\ pc[p] # "failed") => file' = file ]_vars
    /\ [][ file' # file =>
               \E p \in Procs : /\ pc[p] \in {"open_w", "write"}
                                /\ pc'[p] # pc[p]
                                /\ err[p] = "" ]_vars

C6_Witness ==
    /\ pc[1] = "failed"
    /\ err[1] = "CalledProcessError"
    /\ OpsOf(pid[1]) = <<"read">>
    /\ MatchingIndices(lines[1]) # {}
    /\ file = original

\* The next place in the script after the rewrite loop, the open, the write.
After(at) ==
    CASE at = "rewrite" -> "open_w"
      [] at = "open_w" -> "write"
      [] at = "write" -> "done"

\* C7: when no line read begins with version=, the rewrite changes nothing, no
\* step from the rewrite loop on raises (each takes the run to the next place,
\* up to its end), and the file the run leaves reads back as the lines read.
C7_NoVersionLineIsNoError ==
    /\ [](\A p \in Procs :
              pc[p] \in {"rewrite", "open_w", "write", "done"}
                /\ MatchingIndices(lines[p]) = {} =>
                  /\ err[p] = ""
                  /\ Rewritten(p) => new_lines[p] = lines[p]
                  /\ pc[p] = "done" => ReadLines(file) = lines[p])
    /\ [][ \A p \in Procs :
               pc[p] \in {"rewrite", "open_w", "write"}
                 /\ MatchingIndices(lines[p]) = {}
                 /\ pc'[p] # pc[p] =>
                   pc'[p] = After(pc[p]) /\ err'[p] = "" ]_vars

C7_Witness ==
    /\ pc[1] = "done"
    /\ Len(lines[1]) = 2
    /\ MatchingIndices(lines[1]) = {}
    /\ ReadLines(file) = lines[1]
    /\ lines[1][1][1] = " "

\* C10: run after run, the lines that begin with version= are those of the
\* first document, and the file a successful run leaves is the first document
\* with those lines replaced by the version of that run: a second run with the
\* same description leaves the file of the first.
C10_FileIsOriginalStampedWithLatest ==
    \A p \in Procs :
        /\ pc[p] \in {"describe", "normalize", "rewrite", "open_w", "write", "done"} =>
               MatchingIndices(lines[p]) = MatchingIndices(ReadLines(original))
        /\ pc[p] = "done" =>
               file = WriteLines(Stamped(ReadLines(original), git_describe[p]), linesep)

C10_Witness ==
    /\ pc[1] = "done"
    /\ runs = 2
    /\ OpsOf(1) = <<"read", "describe", "trunc", "write">>
    /\ MatchingIndices(ReadLines(original)) = {2}
    /\ Len(ReadLines(original)) = 3
    /\ original[Len(original)] # "\n"
    /\ lines[1] = new_lines[1]

\* ------------------------------------------ claims on concurrent invocations

BothFinished == \A p \in Procs : Finished(p)

\* The positions in the history of the steps op of the invocation in slot p.
Times(p, op) == {i \in 1..Len(events) : events[i].pid = pid[p] /\ events[i].op = op}

\* The invocation in slot p made the last write to plugin.cfg.
WroteLast(p) ==
    /\ Times(p, "write") # {}
    /\ \A q \in Procs \ {p} : \A i \in Times(p, "write") : \A j \in Times(q, "write") : j < i

\* The other invocation wrote between the truncation and the write of p.
WrittenInto(p) ==
    \E q \in Procs \ {p} : \E t \in Times(p, "trunc") : \E w \in Times(p, "write") :
        \E j \in Times(q, "write") : t < j /\ j < w

\* The characters the invocation in slot p wrote: its new_lines, line ends encoded.
Written(p) == WriteLines(new_lines[p], linesep)

\* C9 as stated: once both invocations have finished, plugin.cfg holds exactly
\* the lines written by the invocation whose write happened last.
C9_LastWriterWins ==
    \A p \in Procs : BothFinished /\ WroteLast(p) => file = Written(p)

\* C9 amended: once both invocations have finished, plugin.cfg begins with what
\* the invocation whose write happened last wrote; it is exactly that unless
\* the other invocation wrote between the last writer's truncation and its
\* write, and then what the other wrote beyond the last writer's length stays.
C9_LastWriteOverlaysTheOther ==
    \A p \in Procs :
        BothFinished /\ WroteLast(p) =>
            /\ IsPrefixOf(Written(p), file)
            /\ ~WrittenInto(p) => file = Written(p)
            /\ WrittenInto(p) =>
                   \A q \in Procs \ {p} :
                       file = Written(p) \o SubSeq(Written(q), Len(Written(p)) + 1,
                                                   Len(Written(q)))

\* Both ran to their end, each truncated before either wrote, and the last
\* writer wrote less than the other.
C9_Witness ==
    /\ BothFinished
    /\ WroteLast(2)
    /\ WrittenInto(2)
    /\ Written(2) # <<>>
    /\ Len(Written(2)) < Len(Written(1))
    /\ file # Written(2)
    /\ lines[1] = lines[2]

====
